---------------------------- MODULE Spec2Model ----------------------------
(***************************************************************************)
(* Model of gotunnel's tunnel Manager (package tunnel), together with the  *)
(* collaborators it drives: the hosts file, the dnsserver registry, the    *)
(* proxy route table, the certificate store and the TCP listeners.         *)
(*                                                                         *)
(* Strings are sequences of one-character strings so that HasSuffix,       *)
(* TrimSuffix and Contains are computed as the Go code computes them.      *)
(* The tokens IP ("127.0.0.1"), TAB and NL stand for those byte sequences  *)
(* inside the hosts file content.                                          *)
(***************************************************************************)
EXTENDS Integers, Sequences, FiniteSets, TLC

VARIABLES
    useProxy,      \* Manager.useProxy (proxyManager # nil exactly when TRUE)
    hostsBackup,   \* Manager.hostsBackup: path of the backup file
    backupFile,    \* content of the file at the backup path, or Absent
    hostsFile,     \* content of the hosts file
    hosts0,        \* content of the hosts file when the Manager was built
    tunnels,       \* Manager.tunnels: domain -> Tunnel
    listeners,     \* every listener bound so far, by id: [port, open, domain]
    entries,       \* dnsserver globalServer.entries: domain -> port
    routes,        \* proxy.Manager.routes: key -> Route
    certFiles,     \* certsDir: domain -> [crt, key], the two files' contents
    certManager,   \* which CertManager the program is built with
    lastOp,        \* the Manager call that produced this state, and its result
    nops,          \* number of Start, StopTunnel and Stop calls made so far
    clean,         \* TRUE while every Manager call so far has returned nil
    mu,            \* the mutex (Manager.mu, or proxy.Manager.mu for the proxy):
                   \* 0 when free, else the caller that holds it for writing
    procs          \* the concurrent callers: where each is in its call

vars == <<useProxy, hostsBackup, backupFile, hostsFile, hosts0, tunnels,
          listeners, entries, routes, certFiles, certManager, lastOp, nops,
          clean, mu, procs>>

-----------------------------------------------------------------------------
(* Bounds *)

MaxOps == 4
NProcs == 3

(* Program constants *)

DefaultHTTPPort == 80
DefaultHTTPSPort == 443
MaxPort == 65535
ProxyHTTPBase == 9080
ProxyHTTPSBase == 9443
StatusOK == 200
StatusNotFound == 404
StatusBadGateway == 502

-----------------------------------------------------------------------------
(* Strings *)

IP == "127.0.0.1"
TAB == "\t"
NL == "\n"

DotLocal == <<".", "l", "o", "c", "a", "l">>
EmptyString == << >>
NameA == <<"a">>
NameALocal == <<"a">> \o DotLocal
NameBALocal == <<"b", "a">> \o DotLocal
Localhost == <<"l", "o", "c", "a", "l", "h", "o", "s", "t">>

HasSuffix(s, suffix) ==
    /\ Len(s) >= Len(suffix)
    /\ SubSeq(s, Len(s) - Len(suffix) + 1, Len(s)) = suffix

TrimSuffix(s, suffix) ==
    IF HasSuffix(s, suffix) THEN SubSeq(s, 1, Len(s) - Len(suffix)) ELSE s

Contains(s, substr) ==
    \E i \in 1..(Len(s) - Len(substr) + 1) :
        SubSeq(s, i, i + Len(substr) - 1) = substr

(* bufio.Scanner with the default ScanLines split: lines end at NL, a last
   unterminated line is returned if it is not empty. *)
RECURSIVE ScanFrom(_, _, _)
ScanFrom(content, i, cur) ==
    IF i > Len(content)
    THEN IF cur = << >> THEN << >> ELSE <<cur>>
    ELSE IF content[i] = NL
         THEN <<cur>> \o ScanFrom(content, i + 1, << >>)
         ELSE ScanFrom(content, i + 1, Append(cur, content[i]))

ScanLines(content) == ScanFrom(content, 1, << >>)

(* strings.Join *)
RECURSIVE Join(_, _)
Join(lines, sep) ==
    IF lines = << >> THEN << >>
    ELSE IF Len(lines) = 1 THEN lines[1]
    ELSE lines[1] \o sep \o Join(Tail(lines), sep)

RECURSIVE FilterLines(_, _)
FilterLines(lines, domain) ==
    IF lines = << >> THEN << >>
    ELSE IF Contains(lines[1], domain)
         THEN FilterLines(Tail(lines), domain)
         ELSE <<lines[1]>> \o FilterLines(Tail(lines), domain)

(* "Check if entry already exists": some line contains the domain *)
HostsHasEntry(content, domain) ==
    LET lines == ScanLines(content)
    IN  \E i \in 1..Len(lines) : Contains(lines[i], domain)


-----------------------------------------------------------------------------
(* Values *)

NoError == "nil"
Absent == <<"absent">>
NoPath == ""
GoodPath == "/tmp/hosts.backup"
BadPath == "/nonexistent/dir/hosts.bak"

EmptyMap == [x \in {} |-> 0]

(* delete(m, k) on a Go map *)
Delete(m, k) == [x \in (DOMAIN m) \ {k} |-> m[x]]

(* m[k] = v on a Go map *)
Put(m, k, v) == [x \in (DOMAIN m) \cup {k} |-> IF x = k THEN v ELSE m[x]]

-----------------------------------------------------------------------------
(* Hosts file *)

updateHostsFile(content, domain, faults) ==
    IF "hosts" \in faults
    THEN [err |-> "failed to read hosts file", content |-> content]
    ELSE IF HostsHasEntry(content, domain)
         THEN [err |-> NoError, content |-> content]
         ELSE [err |-> NoError,
               content |-> content \o <<NL, IP, TAB>> \o domain \o <<NL>>]

removeFromHostsFile(content, domain, faults) ==
    IF "hosts" \in faults
    THEN [err |-> "failed to read hosts file", content |-> content]
    ELSE [err |-> NoError,
          content |-> Join(FilterLines(ScanLines(content), domain), <<NL>>)
                          \o <<NL>>]

(* Manager.backupHostsFile: reads the hosts file, writes it to m.hostsBackup *)
backupHostsFile(content, path, backup, faults) ==
    IF "backup" \in faults
    THEN [err |-> "failed to read hosts file", backup |-> backup]
    ELSE IF path # GoodPath
         THEN [err |-> "failed to create hosts backup", backup |-> backup]
         ELSE [err |-> NoError, backup |-> content]

(* Manager.restoreHostsFile *)
restoreHostsFile(content, path, backup, faults) ==
    IF path = NoPath
    THEN [err |-> NoError, content |-> content, backup |-> backup]
    ELSE IF backup = Absent \/ path # GoodPath
         THEN [err |-> "failed to read hosts backup",
               content |-> content, backup |-> backup]
         ELSE IF "restore" \in faults
              THEN [err |-> "failed to restore hosts file",
                    content |-> content, backup |-> backup]
              ELSE [err |-> NoError, content |-> backup, backup |-> Absent]

-----------------------------------------------------------------------------
(* dnsserver *)

(* RegisterDomain advertising the default HTTP port whatever port it is
   given *)
RegisterDomain_DefaultPort(ents, domain, port, faults) ==
    IF "register" \in faults
    THEN [err |-> "failed to start mDNS server", entries |-> ents]
    ELSE [err |-> NoError, entries |-> Put(ents, domain, DefaultHTTPPort)]

RegisterDomain(ents, domain, port, faults) ==
    IF "register" \in faults
    THEN [err |-> "failed to start mDNS server", entries |-> ents]
    ELSE [err |-> NoError, entries |-> Put(ents, domain, port)]

UnregisterDomain(ents, domain) == Delete(ents, domain)

-----------------------------------------------------------------------------
(* proxy.Manager route table *)

AddRoute(rts, route) ==
    LET domain == IF HasSuffix(route.Domain, DotLocal)
                  THEN TrimSuffix(route.Domain, DotLocal)
                  ELSE route.Domain
    IN  Put(Put(rts, domain \o DotLocal, route), domain, route)

RemoveRoute(rts, domain) ==
    IF HasSuffix(domain, DotLocal)
    THEN Delete(Delete(rts, domain), TrimSuffix(domain, DotLocal))
    ELSE Delete(Delete(rts, domain), domain \o DotLocal)

-----------------------------------------------------------------------------
(* cert.CertManager *)

(* A file of certsDir: missing, holding bytes that do not parse as PEM, or
   holding the PEM encoding of the key pair generated as number bytes. *)
NoFile == [state |-> "none", bytes |-> 0]
CorruptFile == [state |-> "corrupt", bytes |-> 0]
PEM(n) == [state |-> "valid", bytes |-> n]

NoPair == [crt |-> NoFile, key |-> NoFile]

CertPair(files, domain) ==
    IF domain \in DOMAIN files THEN files[domain] ELSE NoPair

(* tls.LoadX509KeyPair(certPath, keyPath): both files parse and the private
   key belongs to the certificate.  cert is the certificate's bytes, 0 for
   a nil certificate. *)
LoadX509KeyPair(pair) ==
    IF pair.crt.state = "valid" /\ pair.key.state = "valid"
       /\ pair.key.bytes = pair.crt.bytes
    THEN [err |-> NoError, cert |-> pair.crt.bytes]
    ELSE [err |-> "tls: failed to load key pair", cert |-> 0]

(* A newly generated key pair differs from every pair generated before. *)
FreshBytes(files) ==
    LET used == {0} \cup {files[d].crt.bytes : d \in DOMAIN files}
                    \cup {files[d].key.bytes : d \in DOMAIN files}
    IN  1 + CHOOSE m \in used : \A n \in used : n <= m

(* EnsureCert returning neither a certificate nor an error when the
   generation fails *)
EnsureCert_NilWithoutError(files, domain, faults) ==
    LET pair == CertPair(files, domain)
        loaded == LoadX509KeyPair(pair)
        fresh == FreshBytes(files)
    IN  IF pair.crt.state # "none" /\ loaded.err = NoError
        THEN [err |-> NoError, files |-> files, cert |-> loaded.cert]
        ELSE IF "cert" \in faults
        THEN [err |-> NoError, files |-> files, cert |-> 0]
        ELSE IF "keyfile" \in faults
        THEN [err |-> "failed to create key file",
              files |-> Put(files, domain, [pair EXCEPT !.crt = PEM(fresh)]),
              cert |-> 0]
        ELSE [err |-> NoError,
              files |-> Put(files, domain,
                            [crt |-> PEM(fresh), key |-> PEM(fresh)]),
              cert |-> fresh]

(* CertManager.EnsureCert, self-signed: "Check if cert already exists" by
   os.Stat(certPath) and LoadX509KeyPair; otherwise generate a key and a
   certificate and write domain.crt, then domain.key.  The "cert" fault is
   a failing rsa.GenerateKey, the "keyfile" fault a failing
   os.Create(keyPath) after the certificate file has been written. *)
EnsureCert(files, domain, faults) ==
    LET pair == CertPair(files, domain)
        loaded == LoadX509KeyPair(pair)
        fresh == FreshBytes(files)
    IN  IF pair.crt.state # "none" /\ loaded.err = NoError
        THEN [err |-> NoError, files |-> files, cert |-> loaded.cert]
        ELSE IF "cert" \in faults
        THEN [err |-> "failed to generate private key", files |-> files,
              cert |-> 0]
        ELSE IF "keyfile" \in faults
        THEN [err |-> "failed to create key file",
              files |-> Put(files, domain, [pair EXCEPT !.crt = PEM(fresh)]),
              cert |-> 0]
        ELSE [err |-> NoError,
              files |-> Put(files, domain,
                            [crt |-> PEM(fresh), key |-> PEM(fresh)]),
              cert |-> fresh]

(* CertManager.EnsureCert, mkcert: runs "mkcert -cert-file -key-file" on
   every call, which writes a new pair over the two files, and loads the
   result.  A fault is mkcert missing or exiting with an error. *)
EnsureCertMkcert(files, domain, faults) ==
    LET fresh == FreshBytes(files)
        written == [crt |-> PEM(fresh), key |-> PEM(fresh)]
        loaded == LoadX509KeyPair(written)
    IN  IF faults # {}
        THEN [err |-> "failed to generate certificate", files |-> files,
              cert |-> 0]
        ELSE [err |-> loaded.err, files |-> Put(files, domain, written),
              cert |-> loaded.cert]

-----------------------------------------------------------------------------
(* Listeners *)

ListenerIds == 1..MaxOps

PortInUse(lst, port) == \E i \in DOMAIN lst : lst[i].open /\ lst[i].port = port

FreeId(lst) == CHOOSE i \in ListenerIds \ DOMAIN lst :
                   \A j \in ListenerIds \ DOMAIN lst : i <= j

(* net.ListenConfig.Listen on 0.0.0.0:port.  setSocketOptions sets only
   SO_REUSEADDR, so a port with a listening socket cannot be bound again;
   the "bind" fault is a port held by another process. *)
Listen(lst, port, domain, faults) ==
    IF "bind" \in faults \/ PortInUse(lst, port)
    THEN [err |-> "failed to create listener", listeners |-> lst, id |-> 0]
    ELSE [err |-> NoError,
          listeners |-> Put(lst, FreeId(lst), [port |-> port, open |-> TRUE,
                                               domain |-> domain]),
          id |-> FreeId(lst)]

CloseListener(lst, id) ==
    IF id \in DOMAIN lst THEN [lst EXCEPT ![id].open = FALSE] ELSE lst

-----------------------------------------------------------------------------
(* Tunnel.stop leaving the listener as it is when the shutdown of the server
   returns an error *)
TunnelStop_NoForceClose(t, lst, fails) ==
    IF t.server
    THEN IF fails
         THEN [err |-> "error shutting down server", t |-> t,
               listeners |-> lst]
         ELSE [err |-> NoError,
               t |-> [t EXCEPT !.server = FALSE, !.listener = 0,
                               !.done = @ + 1],
               listeners |-> CloseListener(lst, t.listener)]
    ELSE [err |-> NoError,
          t |-> [t EXCEPT !.listener = 0, !.done = @ + 1],
          listeners |-> CloseListener(lst, t.listener)]

(* Tunnel.stop: the tunnel after the call, the listeners after the call and
   the error.  http.Server.Shutdown closes the server's listeners before it
   waits for connections, so the listener is closed on both outcomes. *)
TunnelStop(t, lst, fails) ==
    IF t.server
    THEN IF fails
         THEN [err |-> "error shutting down server", t |-> t,
               listeners |-> CloseListener(lst, t.listener)]
         ELSE [err |-> NoError,
               t |-> [t EXCEPT !.server = FALSE, !.listener = 0,
                               !.done = @ + 1],
               listeners |-> CloseListener(lst, t.listener)]
    ELSE [err |-> NoError,
          t |-> [t EXCEPT !.listener = 0, !.done = @ + 1],
          listeners |-> CloseListener(lst, t.listener)]

-----------------------------------------------------------------------------
(* Manager *)

(* The part of the state a Manager call can change. *)
Cur ==
    [tunnels |-> tunnels, listeners |-> listeners, hostsFile |-> hostsFile,
     entries |-> entries, routes |-> routes, certFiles |-> certFiles,
     backupFile |-> backupFile]

(* "Convert domain to .local if not already" *)
Normalize(domain) ==
    IF ~HasSuffix(domain, DotLocal) THEN domain \o DotLocal ELSE domain

(* the port check without its upper limit *)
ValidPort_NoUpperLimit(p) == ~(p <= 0)

(* "Validate inputs": the check applied to each of the three ports *)
ValidPort(p) == ~(p <= 0 \/ p > MaxPort)

(* startTunnel updating the hosts file in shared mode too *)
startTunnel_AlwaysUpdatesHosts(st, t, faults) ==
    LET hs == IF ~useProxy THEN <<"hosts">> ELSE << >>
        h == updateHostsFile(st.hostsFile, t.Domain, faults)
        st1 == [st EXCEPT !.hostsFile = h.content]
        listenPort == IF t.HTTPS THEN t.HTTPSPort ELSE t.HTTPPort
        r == RegisterDomain(st1.entries, t.Domain, listenPort, faults)
        st2 == [st1 EXCEPT !.entries = r.entries]
        t1 == [t EXCEPT !.server = TRUE, !.done = 0]
        l == Listen(st2.listeners, listenPort, t.Domain, faults)
        st3 == [st2 EXCEPT !.listeners = l.listeners]
        t2 == [t1 EXCEPT !.listener = l.id]
    IN  IF h.err # NoError
        THEN [err |-> "failed to update hosts file", st |-> st, t |-> t,
              steps |-> hs]
        ELSE IF r.err # NoError
        THEN [err |-> "failed to register domain", st |-> st1, t |-> t,
              steps |-> hs \o <<"discovery">>]
        ELSE IF l.err # NoError
        THEN [err |-> "failed to create listener", st |-> st2, t |-> t1,
              steps |-> hs \o <<"discovery", "listener">>]
        ELSE IF "serve" \in faults
        \* http.Server.Serve closes the listener when it returns
        THEN [err |-> "server startup error",
              st |-> [st3 EXCEPT !.listeners = CloseListener(@, l.id)],
              t |-> t2, steps |-> hs \o <<"discovery", "listener">>]
        ELSE [err |-> NoError, st |-> st3, t |-> t2,
              steps |-> hs \o <<"discovery", "listener">>]

(* Manager.startTunnel.  steps lists, in the order in which the call made
   them, the steps it got to. *)
startTunnel(st, t, faults) ==
    LET hs == IF ~useProxy THEN <<"hosts">> ELSE << >>
        h == IF ~useProxy
             THEN updateHostsFile(st.hostsFile, t.Domain, faults)
             ELSE [err |-> NoError, content |-> st.hostsFile]
        st1 == [st EXCEPT !.hostsFile = h.content]
        listenPort == IF t.HTTPS THEN t.HTTPSPort ELSE t.HTTPPort
        r == RegisterDomain(st1.entries, t.Domain, listenPort, faults)
        st2 == [st1 EXCEPT !.entries = r.entries]
        t1 == [t EXCEPT !.server = TRUE, !.done = 0]
        l == Listen(st2.listeners, listenPort, t.Domain, faults)
        st3 == [st2 EXCEPT !.listeners = l.listeners]
        t2 == [t1 EXCEPT !.listener = l.id]
    IN  IF h.err # NoError
        THEN [err |-> "failed to update hosts file", st |-> st, t |-> t,
              steps |-> hs]
        ELSE IF r.err # NoError
        THEN [err |-> "failed to register domain", st |-> st1, t |-> t,
              steps |-> hs \o <<"discovery">>]
        ELSE IF l.err # NoError
        THEN [err |-> "failed to create listener", st |-> st2, t |-> t1,
              steps |-> hs \o <<"discovery", "listener">>]
        ELSE IF "serve" \in faults
        \* http.Server.Serve closes the listener when it returns
        THEN [err |-> "server startup error",
              st |-> [st3 EXCEPT !.listeners = CloseListener(@, l.id)],
              t |-> t2, steps |-> hs \o <<"discovery", "listener">>]
        ELSE [err |-> NoError, st |-> st3, t |-> t2,
              steps |-> hs \o <<"discovery", "listener">>]

(* Manager.startTunnelInternal *)
startTunnelInternal(st, backendPort, domain0, https, httpPort, httpsPort, faults) ==
    LET proxyMode == useProxy
        tunnelHTTPPort == IF proxyMode
                          THEN ProxyHTTPBase + Cardinality(DOMAIN st.tunnels)
                          ELSE httpPort
        tunnelHTTPSPort == IF proxyMode
                           THEN ProxyHTTPSBase + Cardinality(DOMAIN st.tunnels)
                           ELSE httpsPort
        domain == Normalize(domain0)
        tunnel == [Port |-> backendPort, HTTPPort |-> tunnelHTTPPort,
                   HTTPSPort |-> tunnelHTTPSPort, Domain |-> domain,
                   HTTPS |-> https, server |-> FALSE, listener |-> 0,
                   done |-> 0, Cert |-> FALSE]
        c == IF https THEN EnsureCert(st.certFiles, domain, faults)
             ELSE [err |-> NoError, files |-> st.certFiles, cert |-> 0]
        st1 == [st EXCEPT !.certFiles = c.files]
        s == startTunnel(st1, [tunnel EXCEPT !.Cert = (c.cert # 0)], faults)
        st2 == [s.st EXCEPT !.tunnels = Put(@, domain, s.t)]
        st3 == IF proxyMode
               THEN [st2 EXCEPT !.routes =
                        AddRoute(@, [Domain |-> domain,
                                     TargetHost |-> IP,
                                     TargetPort |-> s.t.HTTPPort,
                                     HTTPS |-> https])]
               ELSE st2
        b == IF ~useProxy /\ Cardinality(DOMAIN st3.tunnels) = 1
             THEN backupHostsFile(st3.hostsFile, hostsBackup, st3.backupFile,
                                  faults)
             ELSE [err |-> NoError, backup |-> st3.backupFile]
        pre == <<"validate">> \o (IF https THEN <<"certificate">> ELSE << >>)
        post == <<"collection">>
                    \o (IF proxyMode THEN <<"route">> ELSE << >>)
                    \o (IF ~useProxy /\ Cardinality(DOMAIN st3.tunnels) = 1
                        THEN <<"backup">> ELSE << >>)
    IN  IF ~ValidPort(backendPort)
        THEN [err |-> "invalid backend port", st |-> st,
              steps |-> <<"validate">>]
        ELSE IF domain0 = EmptyString
        THEN [err |-> "domain cannot be empty", st |-> st,
              steps |-> <<"validate">>]
        ELSE IF ~ValidPort(httpPort)
        THEN [err |-> "invalid HTTP port", st |-> st,
              steps |-> <<"validate">>]
        ELSE IF ~ValidPort(httpsPort)
        THEN [err |-> "invalid HTTPS port", st |-> st,
              steps |-> <<"validate">>]
        ELSE IF domain0 \in DOMAIN st.tunnels
        THEN [err |-> "already exists", st |-> st, steps |-> <<"validate">>]
        ELSE IF c.err # NoError
        THEN [err |-> "failed to ensure certificate", st |-> st,
              steps |-> pre]
        ELSE IF s.err # NoError
        \* "failed to start tunnel: " wraps the error of startTunnel
        THEN [err |-> s.err, st |-> s.st, steps |-> pre \o s.steps]
        ELSE IF b.err # NoError
        THEN [err |-> "failed to backup hosts file", st |-> st3,
              steps |-> pre \o s.steps \o post]
        ELSE [err |-> NoError, st |-> [st3 EXCEPT !.backupFile = b.backup],
              steps |-> pre \o s.steps \o post]

(* Manager.StartTunnelWithPorts *)
StartTunnelWithPorts(st, backendPort, domain, https, httpPort, httpsPort, faults) ==
    startTunnelInternal(st, backendPort, domain, https,
        IF httpPort = 0 THEN DefaultHTTPPort ELSE httpPort,
        IF httpsPort = 0 THEN DefaultHTTPSPort ELSE httpsPort,
        faults)

(* StopTunnel unregistering the domain before it looks the tunnel up *)
StopTunnelResult_UnregistersFirst(st, domain, faults) ==
    IF domain \notin DOMAIN st.tunnels
    THEN [err |-> "does not exist",
          st |-> [st EXCEPT !.entries = UnregisterDomain(@, domain)],
          removed |-> {}]
    ELSE
    LET r == TunnelStop(st.tunnels[domain], st.listeners, "stop" \in faults)
        st1 == [st EXCEPT !.tunnels = Put(@, domain, r.t),
                          !.listeners = r.listeners]
        h == IF ~useProxy
             THEN removeFromHostsFile(st1.hostsFile, domain, faults)
             ELSE [err |-> NoError, content |-> st1.hostsFile]
        st2 == [st1 EXCEPT !.hostsFile = h.content]
        st3 == IF useProxy
               THEN [st2 EXCEPT !.routes = RemoveRoute(@, domain)]
               ELSE st2
        st4 == [st3 EXCEPT !.entries = UnregisterDomain(@, domain)]
    IN  IF r.err # NoError
        THEN [err |-> "failed to stop tunnel", st |-> st1, removed |-> {}]
        ELSE [err |-> NoError, st |-> [st4 EXCEPT !.tunnels = Delete(@, domain)],
              removed |-> {[Domain |-> domain, done |-> r.t.done]}]

(* StopTunnel restoring the hosts file from the backup, and removing the
   backup, when it stops the last tunnel *)
StopTunnelResult_RestoresAtLast(st, domain, faults) ==
    IF domain \notin DOMAIN st.tunnels
    THEN [err |-> "does not exist", st |-> st, removed |-> {}]
    ELSE
    LET r == TunnelStop(st.tunnels[domain], st.listeners, "stop" \in faults)
        st1 == [st EXCEPT !.tunnels = Put(@, domain, r.t),
                          !.listeners = r.listeners]
        h == IF ~useProxy
             THEN removeFromHostsFile(st1.hostsFile, domain, faults)
             ELSE [err |-> NoError, content |-> st1.hostsFile]
        st2 == [st1 EXCEPT !.hostsFile = h.content]
        st3 == IF useProxy
               THEN [st2 EXCEPT !.routes = RemoveRoute(@, domain)]
               ELSE st2
        st4 == [st3 EXCEPT !.entries = UnregisterDomain(@, domain)]
        st5 == [st4 EXCEPT !.tunnels = Delete(@, domain)]
        b == restoreHostsFile(st5.hostsFile, hostsBackup, st5.backupFile, {})
        rm == {[Domain |-> domain, done |-> r.t.done]}
    IN  IF r.err # NoError
        THEN [err |-> "failed to stop tunnel", st |-> st1, removed |-> {}]
        ELSE IF DOMAIN st5.tunnels = {}
        THEN [err |-> NoError,
              st |-> [st5 EXCEPT !.hostsFile = b.content,
                                 !.backupFile = b.backup],
              removed |-> rm]
        ELSE [err |-> NoError, st |-> st5, removed |-> rm]

(* Manager.StopTunnel.  removed holds, for the tunnel the call took out of
   the collection, how many times its done channel has been closed. *)
StopTunnelResult(st, domain, faults) ==
    IF domain \notin DOMAIN st.tunnels
    THEN [err |-> "does not exist", st |-> st, removed |-> {}]
    ELSE
    LET r == TunnelStop(st.tunnels[domain], st.listeners, "stop" \in faults)
        st1 == [st EXCEPT !.tunnels = Put(@, domain, r.t),
                          !.listeners = r.listeners]
        h == IF ~useProxy
             THEN removeFromHostsFile(st1.hostsFile, domain, faults)
             ELSE [err |-> NoError, content |-> st1.hostsFile]
        st2 == [st1 EXCEPT !.hostsFile = h.content]
        st3 == IF useProxy
               THEN [st2 EXCEPT !.routes = RemoveRoute(@, domain)]
               ELSE st2
        st4 == [st3 EXCEPT !.entries = UnregisterDomain(@, domain)]
    IN  IF r.err # NoError
        THEN [err |-> "failed to stop tunnel", st |-> st1, removed |-> {}]
        ELSE [err |-> NoError, st |-> [st4 EXCEPT !.tunnels = Delete(@, domain)],
              removed |-> {[Domain |-> domain, done |-> r.t.done]}]

(* Manager.Stop: failing is the set of tunnels whose stop returns an error *)
RECURSIVE StopEach(_, _, _)
StopEach(ts, lst, failing) ==
    IF DOMAIN ts = {} THEN lst
    ELSE LET d == CHOOSE x \in DOMAIN ts : TRUE
         IN  StopEach(Delete(ts, d),
                      TunnelStop(ts[d], lst, d \in failing).listeners, failing)

(* Manager.Stop keeping the tunnels whose stop failed in the collection *)
StopResult_KeepsFailed(st, failing, faults) ==
    LET lst == StopEach(st.tunnels, st.listeners, failing)
        r == restoreHostsFile(st.hostsFile, hostsBackup, st.backupFile, faults)
        st1 == [st EXCEPT !.listeners = lst,
                          !.tunnels = [d \in failing |-> st.tunnels[d]],
                          !.hostsFile = r.content, !.backupFile = r.backup]
    IN  [err |-> IF failing # {} \/ r.err # NoError
                 THEN "errors during shutdown" ELSE NoError,
         st |-> st1,
         removed |-> {[Domain |-> d,
                       done |-> TunnelStop(st.tunnels[d], st.listeners,
                                           d \in failing).t.done] :
                         d \in DOMAIN st.tunnels \ DOMAIN st1.tunnels}]

StopResult(st, failing, faults) ==
    LET lst == StopEach(st.tunnels, st.listeners, failing)
        r == restoreHostsFile(st.hostsFile, hostsBackup, st.backupFile, faults)
        st1 == [st EXCEPT !.listeners = lst, !.tunnels = EmptyMap,
                          !.hostsFile = r.content, !.backupFile = r.backup]
    IN  [err |-> IF failing # {} \/ r.err # NoError
                 THEN "errors during shutdown" ELSE NoError,
         st |-> st1,
         removed |-> {[Domain |-> d,
                       done |-> TunnelStop(st.tunnels[d], st.listeners,
                                           d \in failing).t.done] :
                         d \in DOMAIN st.tunnels \ DOMAIN st1.tunnels}]

(* the list with the listening port of each tunnel in place of its backend
   port *)
RECURSIVE TunnelList_ListenPort(_)
TunnelList_ListenPort(ts) ==
    IF DOMAIN ts = {} THEN <<>>
    ELSE LET d == CHOOSE x \in DOMAIN ts : TRUE
         IN  <<[domain |-> d, port |-> ts[d].HTTPPort, https |-> ts[d].HTTPS]>>
                 \o TunnelList_ListenPort(Delete(ts, d))

(* the loop of ListTunnels over the map, in some order *)
RECURSIVE TunnelList(_)
TunnelList(ts) ==
    IF DOMAIN ts = {} THEN <<>>
    ELSE LET d == CHOOSE x \in DOMAIN ts : TRUE
         IN  <<[domain |-> d, port |-> ts[d].Port, https |-> ts[d].HTTPS]>>
                 \o TunnelList(Delete(ts, d))

(* Manager.ListTunnels *)
ListTunnels == TunnelList(tunnels)

-----------------------------------------------------------------------------
(* Inputs of the calls *)

Domains == {EmptyString, NameA, NameALocal, NameBALocal}

Call(backendPort, domain, https, httpPort, httpsPort) ==
    [backendPort |-> backendPort, domain |-> domain, https |-> https,
     httpPort |-> httpPort, httpsPort |-> httpsPort]

StartCalls ==
    { Call(3000, NameA, FALSE, 8080, 0),
      Call(3001, NameA, FALSE, 8081, 8443),
      Call(3000, NameALocal, TRUE, 0, 8443),
      Call(3000, NameBALocal, FALSE, 8080, 8443),
      Call(-1, NameALocal, FALSE, 8080, 8443),
      Call(3000, EmptyString, FALSE, 8080, 8443),
      Call(3000, NameBALocal, FALSE, 65536, 8443),
      Call(3000, NameBALocal, TRUE, 8080, -1) }
StartFaults == {"none", "cert", "hosts", "register", "bind", "serve", "backup"}
StopTunnelFaults == {{}, {"stop"}, {"hosts"}}
StopFaults == {{}, {"restore"}}
BackupPaths == {GoodPath, BadPath}

InitHosts == {<<IP, TAB>> \o Localhost \o <<NL>>}

Op(op, domain, backendPort, https, httpPort, httpsPort, err) ==
    [op |-> op, domain |-> domain, backendPort |-> backendPort,
     https |-> https, httpPort |-> httpPort, httpsPort |-> httpsPort,
     err |-> err]

(* The concurrent callers: each makes one Manager call *)
Procs == 1..NProcs

NoCall == Call(0, EmptyString, FALSE, 0, 0)

Proc(pc, op, call, passed, err, removed) ==
    [pc |-> pc, op |-> op, call |-> call, passed |-> passed, err |-> err,
     removed |-> removed]

IdleProc == Proc("idle", "none", NoCall, FALSE, NoError, {})

ConcStartCalls ==
    { Call(3000, NameA, FALSE, 8080, 0),
      Call(3001, NameA, FALSE, 8081, 8443),
      Call(3000, NameALocal, TRUE, 0, 8443) }
ConcStartFaults == {"none", "register", "bind"}
ConcStopDomains == {NameA, NameALocal}
ConcStopTunnelFaults == {{}, {"stop"}}

-----------------------------------------------------------------------------
(* State machine *)

Init ==
    /\ useProxy \in BOOLEAN
    /\ hostsBackup = NoPath
    /\ backupFile = Absent
    /\ hostsFile \in InitHosts
    /\ hosts0 = hostsFile
    /\ tunnels = EmptyMap
    /\ listeners = EmptyMap
    /\ entries = EmptyMap
    /\ routes = EmptyMap
    /\ certFiles = EmptyMap
    /\ certManager = "selfsigned"
    /\ lastOp = Op("NewManager", EmptyString, 0, FALSE, 0, 0, NoError)
    /\ nops = 0
    /\ clean = TRUE
    /\ mu = 0
    /\ procs = [p \in Procs |-> IdleProc]

(* A closed listener that no tunnel of the collection refers to is no longer
   part of the state. *)
Referenced(ts) == {ts[d].listener : d \in DOMAIN ts}

Collect(lst, ts) ==
    [i \in {j \in DOMAIN lst : lst[j].open \/ j \in Referenced(ts)} |-> lst[i]]

Apply(st) ==
    /\ nops < MaxOps
    /\ nops' = nops + 1
    /\ tunnels' = st.tunnels
    /\ listeners' = Collect(st.listeners, st.tunnels)
    /\ hostsFile' = st.hostsFile
    /\ entries' = st.entries
    /\ routes' = st.routes
    /\ certFiles' = st.certFiles
    /\ backupFile' = st.backupFile

SetHostsBackupDir ==
    \E dir \in BackupPaths :
        /\ nops = 0
        /\ mu = 0
        /\ hostsBackup' = dir
        /\ lastOp' = Op("SetHostsBackupDir", EmptyString, 0, FALSE, 0, 0, NoError)
        /\ UNCHANGED <<useProxy, backupFile, hostsFile, hosts0, tunnels,
                       listeners, entries, routes, certFiles, certManager,
                       nops, clean, mu, procs>>

(* a call of StartTunnelWithPorts with the arguments c while fault occurs *)
StartStep(c, fault) ==
    LET r == StartTunnelWithPorts(Cur, c.backendPort, c.domain, c.https,
                                  c.httpPort, c.httpsPort, {fault})
    IN  /\ Apply(r.st)
        /\ lastOp' = Op("Start", c.domain, c.backendPort, c.https,
                        c.httpPort, c.httpsPort, r.err)
        /\ clean' = (clean /\ r.err = NoError)
        /\ UNCHANGED <<useProxy, hostsBackup, hosts0, certManager, mu, procs>>

Start == \E c \in StartCalls, fault \in StartFaults : StartStep(c, fault)

StopTunnel ==
    \E domain \in Domains \cup DOMAIN tunnels, faults \in StopTunnelFaults :
        LET r == StopTunnelResult(Cur, domain, faults)
        IN  /\ Apply(r.st)
            /\ lastOp' = Op("StopTunnel", domain, 0, FALSE, 0, 0, r.err)
            /\ clean' = (clean /\ r.err = NoError)
            /\ UNCHANGED <<useProxy, hostsBackup, hosts0, certManager, mu, procs>>

(* a call of Manager.Stop in which tunnel.stop fails for the tunnels of
   failing *)
StopStep(failing, faults) ==
    LET r == StopResult(Cur, failing, faults)
    IN  /\ Apply(r.st)
        /\ lastOp' = Op("Stop", EmptyString, 0, FALSE, 0, 0, r.err)
        /\ clean' = (clean /\ r.err = NoError)
        /\ UNCHANGED <<useProxy, hostsBackup, hosts0, certManager, mu, procs>>

Stop ==
    \E failing \in SUBSET DOMAIN tunnels, faults \in StopFaults :
        StopStep(failing, faults)

Next == SetHostsBackupDir \/ Start \/ StopTunnel \/ Stop

Spec == Init /\ [][Next]_vars

-----------------------------------------------------------------------------
(* Concurrent callers.  Start, StopTunnel and Stop take m.mu on entry and
   release it when they return (defer m.mu.Unlock()), so a call is: reach
   m.mu.Lock(), get the lock, run, release.  The arguments of a call do not
   depend on the state; they are drawn when the call gets the lock. *)

(* "Validate inputs" and "Prevent duplicate tunnels": the checks of
   startTunnelInternal that precede its first side effect *)
PassesChecks(st, c) ==
    /\ ValidPort(c.backendPort)
    /\ c.domain # EmptyString
    /\ ValidPort(IF c.httpPort = 0 THEN DefaultHTTPPort ELSE c.httpPort)
    /\ ValidPort(IF c.httpsPort = 0 THEN DefaultHTTPSPort ELSE c.httpsPort)
    /\ c.domain \notin DOMAIN st.tunnels

UnchangedManager ==
    UNCHANGED <<useProxy, hostsBackup, backupFile, hostsFile, hosts0, tunnels,
                listeners, entries, routes, certFiles, certManager, lastOp,
                nops, clean>>

(* the caller enters a Manager method and reaches m.mu.Lock() *)
Invoke(p) ==
    \E op \in {"Start", "StopTunnel", "Stop"} :
        /\ procs[p].pc = "idle"
        /\ procs' = [procs EXCEPT ![p].pc = "waiting", ![p].op = op]
        /\ UNCHANGED mu
        /\ UnchangedManager

(* m.mu.Lock() returns *)
Lock(p) ==
    /\ procs[p].pc = "waiting"
    /\ mu = 0
    /\ mu' = p
    /\ procs' = [procs EXCEPT ![p].pc = "locked"]
    /\ UnchangedManager

(* startTunnelInternal up to the duplicate check *)
CheckStart(p) ==
    \E c \in ConcStartCalls :
        /\ procs[p].pc = "locked" /\ procs[p].op = "Start"
        /\ procs' = [procs EXCEPT ![p].pc = "checked", ![p].call = c,
                                  ![p].passed = PassesChecks(Cur, c)]
        /\ UNCHANGED mu
        /\ UnchangedManager

(* the rest of startTunnelInternal, and the deferred Unlock *)
RunStart(p) ==
    \E fault \in ConcStartFaults :
        LET c == procs[p].call
        IN  /\ procs[p].pc = "checked"
            /\ \E r \in {StartTunnelWithPorts(Cur, c.backendPort, c.domain,
                                              c.https, c.httpPort,
                                              c.httpsPort, {fault})} :
                  /\ Apply(r.st)
                  /\ lastOp' = Op("Start", c.domain, c.backendPort, c.https,
                                  c.httpPort, c.httpsPort, r.err)
                  /\ clean' = (clean /\ r.err = NoError)
                  /\ mu' = 0
                  /\ procs' = [procs EXCEPT ![p].pc = "done",
                                            ![p].err = r.err]
                  /\ UNCHANGED <<useProxy, hostsBackup, hosts0, certManager>>

RunStopTunnel(p) ==
    \E domain \in ConcStopDomains, faults \in ConcStopTunnelFaults :
        LET r == StopTunnelResult(Cur, domain, faults)
        IN  /\ procs[p].pc = "locked" /\ procs[p].op = "StopTunnel"
            /\ Apply(r.st)
            /\ lastOp' = Op("StopTunnel", domain, 0, FALSE, 0, 0, r.err)
            /\ clean' = (clean /\ r.err = NoError)
            /\ mu' = 0
            /\ procs' = [procs EXCEPT ![p] =
                            Proc("done", "StopTunnel",
                                 Call(0, domain, FALSE, 0, 0), FALSE, r.err,
                                 r.removed)]
            /\ UNCHANGED <<useProxy, hostsBackup, hosts0, certManager>>

RunStop(p) ==
    \E failing \in SUBSET DOMAIN tunnels :
        LET r == StopResult(Cur, failing, {})
        IN  /\ procs[p].pc = "locked" /\ procs[p].op = "Stop"
            /\ Apply(r.st)
            /\ lastOp' = Op("Stop", EmptyString, 0, FALSE, 0, 0, r.err)
            /\ clean' = (clean /\ r.err = NoError)
            /\ mu' = 0
            /\ procs' = [procs EXCEPT ![p].pc = "done", ![p].err = r.err,
                                      ![p].removed = r.removed]
            /\ UNCHANGED <<useProxy, hostsBackup, hosts0, certManager>>

NextConc ==
    \/ SetHostsBackupDir
    \/ \E p \in Procs : Invoke(p)
    \/ \E p \in Procs : Lock(p)
    \/ \E p \in Procs : CheckStart(p)
    \/ \E p \in Procs : RunStart(p)
    \/ \E p \in Procs : RunStopTunnel(p)
    \/ \E p \in Procs : RunStop(p)

SpecConc == Init /\ [][NextConc]_vars

-----------------------------------------------------------------------------
(* Vocabulary of the properties *)

NormalizedDomains == {Normalize(d) : d \in Domains \ {EmptyString}}

(* the hosts file has the line "127.0.0.1<TAB>domain" *)
HostsHasLine(content, domain) ==
    LET lines == ScanLines(content)
    IN  \E i \in 1..Len(lines) : lines[i] = <<IP, TAB>> \o domain

OpenListeners(lst) == {i \in DOMAIN lst : lst[i].open}

IsStart(op) == op.op = "Start"

(* the claimed port range 1..65535 *)
PortInRange(p) == p \in 1..65535

-----------------------------------------------------------------------------
(* the collection has a tunnel for the domain and its listener is open *)
Running(ts, lst, d) ==
    /\ d \in DOMAIN ts
    /\ ts[d].listener \in OpenListeners(lst)

(* C1: the collection holds at most one tunnel per normalized domain (its
   keys are the normalized domains of its tunnels), and a Start for a domain
   whose normalized form has a running tunnel returns an error and leaves
   the collection and the listeners as they were. *)
C1_Uniqueness ==
    [][ /\ \A d \in DOMAIN tunnels' : tunnels'[d].Domain = d /\ Normalize(d) = d
        /\ (IsStart(lastOp')
            /\ Running(tunnels, listeners, Normalize(lastOp'.domain)))
              => /\ lastOp'.err # NoError
                 /\ tunnels' = tunnels
                 /\ listeners' = listeners ]_vars

(* C2: a Start that fails in the hosts update or in the discovery
   registration returns an error, leaves no entry for the domain in the
   collection and leaves no listener open that was not open before. *)
C2_RollbackAtomicity ==
    [][ (IsStart(lastOp')
         /\ lastOp'.err \in {"failed to update hosts file",
                             "failed to register domain"})
            => /\ Normalize(lastOp'.domain) \notin DOMAIN tunnels'
               /\ OpenListeners(listeners') \subseteq OpenListeners(listeners)
      ]_vars

(* C3: in dedicated mode, when every call before it succeeded, Manager.Stop
   leaves the hosts file with the content it had when the Manager was built. *)
C3_HostsRestoration ==
    [][ (lastOp'.op = "Stop" /\ ~useProxy /\ clean) => hostsFile' = hosts0 ]_vars

(* C4: a Start that returns an error adds no entry to the collection. *)
C4_InsertOnlyOnSuccess ==
    [][ (IsStart(lastOp') /\ lastOp'.err # NoError)
            => DOMAIN tunnels' \subseteq DOMAIN tunnels ]_vars

(* C5: a domain without a tunnel in the collection has no discovery
   registration and, in dedicated mode, no hosts line that the Manager wrote. *)
C5_NoStaleSideEffects ==
    \A d \in NormalizedDomains :
        d \notin DOMAIN tunnels =>
            /\ d \notin DOMAIN entries
            /\ ~useProxy => (HostsHasLine(hostsFile, d) => HostsHasLine(hosts0, d))

(* C6: every tunnel of the collection has an open listener. *)
C6_RunningHasLiveListener ==
    \A d \in DOMAIN tunnels :
        /\ tunnels[d].listener \in DOMAIN listeners
        /\ listeners[tunnels[d].listener].open

(* C7: every open listener is the listener of a tunnel of the collection. *)
C7_NoListenerLeak ==
    \A i \in OpenListeners(listeners) :
        \E d \in DOMAIN tunnels : tunnels[d].listener = i

(* C8: a Start that fails to bind its listener leaves no discovery
   registration and no hosts line that was not there before the call. *)
C8_BindFailureNoRegistration ==
    [][ (IsStart(lastOp') /\ lastOp'.err = "failed to create listener")
            => /\ DOMAIN entries' \subseteq DOMAIN entries
               /\ \A d \in NormalizedDomains :
                     HostsHasLine(hostsFile', d) => HostsHasLine(hostsFile, d)
      ]_vars

(* C9: a dedicated-mode Start that fails in the discovery registration
   leaves no hosts line that was not there before the call. *)
C9_RegisterFailureUndoesHosts ==
    [][ (IsStart(lastOp') /\ ~useProxy
         /\ lastOp'.err = "failed to register domain")
            => \A d \in NormalizedDomains :
                  HostsHasLine(hostsFile', d) => HostsHasLine(hostsFile, d)
      ]_vars

(* C10 as stated: a Start with an empty domain or with a backend, HTTP or
   HTTPS port outside 1..65535 returns an error and changes nothing. *)
C10_Original ==
    [][ (IsStart(lastOp')
         /\ (\/ lastOp'.domain = EmptyString
             \/ ~PortInRange(lastOp'.backendPort)
             \/ ~PortInRange(lastOp'.httpPort)
             \/ ~PortInRange(lastOp'.httpsPort)))
            => /\ lastOp'.err # NoError
               /\ UNCHANGED <<tunnels, listeners, hostsFile, entries, routes,
                              certFiles, backupFile>> ]_vars

(* the invalid inputs of the amended C10: an HTTP or HTTPS port of 0 selects
   the default port and is not invalid *)
InvalidInput(op) ==
    \/ op.domain = EmptyString
    \/ ~PortInRange(op.backendPort)
    \/ (op.httpPort # 0 /\ ~PortInRange(op.httpPort))
    \/ (op.httpsPort # 0 /\ ~PortInRange(op.httpsPort))

(* C10 (amended): a Start with an empty domain, a backend port outside
   1..65535, or a non-zero HTTP or HTTPS port outside 1..65535 returns an
   error and changes nothing: no listener, certificate file, hosts line,
   registration, route or collection entry. *)
C10_InvalidInput ==
    [][ (IsStart(lastOp') /\ InvalidInput(lastOp'))
            => /\ lastOp'.err # NoError
               /\ UNCHANGED <<tunnels, listeners, hostsFile, entries, routes,
                              certFiles, backupFile>> ]_vars

(* an invalid Start was rejected while a tunnel was running *)
C10_Witness ==
    /\ IsStart(lastOp)
    /\ InvalidInput(lastOp)
    /\ lastOp.err \in {"invalid backend port", "domain cannot be empty",
                       "invalid HTTP port", "invalid HTTPS port"}
    /\ DOMAIN tunnels # {}


(* C11: a Start whose EnsureCert fails returns an error and leaves the
   collection, the listeners, the hosts file, the hosts backup, the discovery
   registrations and the routes as they were; and every HTTPS tunnel in the
   collection has a certificate. *)
C11_CertFirst ==
    [][ /\ (IsStart(lastOp') /\ lastOp'.err = "failed to ensure certificate")
              => /\ lastOp'.https
                 /\ UNCHANGED <<tunnels, listeners, hostsFile, backupFile,
                                entries, routes>>
        /\ \A d \in DOMAIN tunnels' : tunnels'[d].HTTPS => tunnels'[d].Cert
      ]_vars

(* an HTTPS Start failed in EnsureCert while another tunnel is running *)
C11_Witness ==
    /\ IsStart(lastOp) /\ lastOp.https
    /\ lastOp.err = "failed to ensure certificate"
    /\ Running(tunnels, listeners, NameBALocal)


(* C12: a StopTunnel for a domain that is not a key of the collection returns
   the not-found error and leaves the collection, the listeners, the hosts
   file, the hosts backup, the discovery registrations, the routes and the
   certificate files as they were. *)
C12_StopUnknown ==
    [][ (lastOp'.op = "StopTunnel" /\ lastOp'.domain \notin DOMAIN tunnels)
          => /\ lastOp'.err = "does not exist"
             /\ UNCHANGED <<tunnels, listeners, hostsFile, backupFile,
                            entries, routes, certFiles>> ]_vars

(* StopTunnel did not find its domain while a tunnel is running and a domain
   is registered for discovery *)
C12_Witness ==
    /\ lastOp.op = "StopTunnel"
    /\ lastOp.err = "does not exist"
    /\ lastOp.domain \in DOMAIN entries
    /\ \E d \in DOMAIN tunnels : Running(tunnels, listeners, d)


(* C13: a StopTunnel for a domain of the collection runs every teardown
   step whatever the outcome of the tunnel shutdown: afterwards the domain is
   out of the collection, its discovery registration and its route are gone,
   and its hosts line is gone unless the call reports a failure. *)
C13_AllTeardownSteps ==
    [][ (lastOp'.op = "StopTunnel" /\ lastOp'.domain \in DOMAIN tunnels)
          => /\ lastOp'.domain \notin DOMAIN tunnels'
             /\ lastOp'.domain \notin DOMAIN entries'
             /\ lastOp'.domain \notin DOMAIN routes'
             /\ \/ useProxy
                \/ ~HostsHasLine(hostsFile', lastOp'.domain)
                \/ lastOp'.err # NoError ]_vars


(* C14: Manager.Stop closes the listener of every tunnel of the collection
   and leaves the collection empty, whichever tunnel stops fail; it returns
   an error when a tunnel stop failed; and where a backup path is configured
   it leaves the hosts file with the content of the backup or returns an
   error. *)
C14_StopAll ==
    [][ \A failing \in SUBSET DOMAIN tunnels, faults \in StopFaults :
          StopStep(failing, faults)
            => /\ tunnels' = EmptyMap
               /\ \A d \in DOMAIN tunnels :
                     tunnels[d].listener \notin OpenListeners(listeners')
               /\ failing # {} => lastOp'.err # NoError
               /\ \/ hostsBackup = NoPath
                  \/ backupFile # Absent /\ hostsFile' = backupFile
                  \/ lastOp'.err # NoError ]_vars

(* Manager.Stop returned an error for a failed tunnel stop, emptied the
   collection and restored the hosts file: the line of the second tunnel,
   which is still registered, is gone *)
C14_Witness ==
    /\ lastOp.op = "Stop" /\ lastOp.err # NoError
    /\ tunnels = EmptyMap
    /\ ~useProxy /\ hostsBackup = GoodPath /\ backupFile = Absent
    /\ NameBALocal \in DOMAIN entries
    /\ hostsFile = hosts0 \o <<NL, IP, TAB>> \o NameALocal \o <<NL>>


(* C15: the hosts backup is captured with the content the hosts file had
   before the Manager changed it, and a Start made while the backup exists
   leaves the backup as it is. *)
C15_BackupOnceBeforeChange ==
    [][ /\ (backupFile = Absent /\ backupFile' # Absent)
              => backupFile' = hosts0
        /\ (IsStart(lastOp') /\ backupFile # Absent)
              => backupFile' = backupFile ]_vars


(* the non-empty lines of a hosts file *)
Lines(content) ==
    LET lines == ScanLines(content)
    IN  {lines[i] : i \in 1..Len(lines)} \ {<<>>}

(* C16: a StopTunnel leaves the hosts backup as it is and brings no line
   into the hosts file; a step that gives the hosts file the content of the
   backup is a Manager.Stop; and a Manager.Stop that consumes the backup
   leaves the hosts file with the backup's content. *)
C16_OnlyStopRestores ==
    [][ /\ lastOp'.op = "StopTunnel"
              => /\ backupFile' = backupFile
                 /\ Lines(hostsFile') \subseteq Lines(hostsFile)
        /\ (backupFile # Absent /\ hostsFile' = backupFile
                                /\ hostsFile' # hostsFile)
              => lastOp'.op = "Stop"
        /\ (lastOp'.op = "Stop" /\ backupFile # Absent /\ backupFile' = Absent)
              => hostsFile' = backupFile ]_vars

(* Start("a"), Start("ba.local"), StopTunnel("a.local") and Manager.Stop:
   the hosts file has the content of the backup taken at the first Start,
   "a.local" is unregistered and "ba.local" was started *)
C16_Witness ==
    /\ lastOp.op = "Stop" /\ lastOp.err = NoError
    /\ ~useProxy /\ backupFile = Absent
    /\ DOMAIN entries = {NameBALocal}
    /\ hostsFile = hosts0 \o <<NL, IP, TAB>> \o NameALocal \o <<NL>>


(* C17: ListTunnels has one record per tunnel of the collection, with the
   tunnel's key, backend port and HTTPS flag; after a successful HTTP
   Start("a", p) on an empty collection it is the single record
   {"a.local", p, false}; and after a successful StopTunnel of the only
   listed domain it is empty. *)
C17_ListRoundTrip ==
    [][ /\ Len(ListTunnels') = Cardinality(DOMAIN tunnels')
        /\ \A d \in DOMAIN tunnels' :
              \E i \in 1..Len(ListTunnels') :
                  ListTunnels'[i] = [domain |-> d, port |-> tunnels'[d].Port,
                                     https |-> tunnels'[d].HTTPS]
        /\ (IsStart(lastOp') /\ lastOp'.err = NoError /\ tunnels = EmptyMap
             /\ lastOp'.domain = NameA /\ ~lastOp'.https)
              => ListTunnels' = <<[domain |-> NameALocal,
                                   port |-> lastOp'.backendPort,
                                   https |-> FALSE]>>
        /\ (lastOp'.op = "StopTunnel" /\ lastOp'.err = NoError
             /\ Len(ListTunnels) = 1
             /\ ListTunnels[1].domain = lastOp'.domain)
              => ListTunnels' = <<>> ]_vars

(* Start("a") and StopTunnel("a.local") succeeded and the list is empty *)
C17_Witness ==
    /\ lastOp.op = "StopTunnel" /\ lastOp.domain = NameALocal
    /\ lastOp.err = NoError
    /\ clean /\ nops = 2
    /\ certFiles = EmptyMap
    /\ ListTunnels = <<>>


(* the open listeners bound for a domain *)
ListenersOf(lst, d) == {i \in OpenListeners(lst) : lst[i].domain = d}

(* C18: when the only calls made are concurrent Starts, no two of them for
   the same normalized domain both pass the duplicate check and return nil,
   and once one of them has returned nil the domain has one tunnel: one entry
   in the collection and one open listener. *)
C18_ConcurrentStarts ==
    (\A r \in Procs : procs[r].op \in {"none", "Start"})
      => \A p, q \in Procs :
           (/\ p # q
            /\ procs[p].pc = "done" /\ procs[q].pc = "done"
            /\ Normalize(procs[p].call.domain) = Normalize(procs[q].call.domain))
             => /\ ~(/\ procs[p].passed /\ procs[p].err = NoError
                     /\ procs[q].passed /\ procs[q].err = NoError)
                /\ (procs[p].err = NoError)
                     => /\ Normalize(procs[p].call.domain) \in DOMAIN tunnels
                        /\ Cardinality(ListenersOf(listeners,
                                Normalize(procs[p].call.domain))) = 1


(* C19: in dedicated mode, in every state in which no call holds the lock, a
   domain is registered for discovery exactly when the hosts file has its
   line. *)
C19_HostsAndDiscoveryTogether ==
    (mu = 0 /\ ~useProxy)
      => \A d \in NormalizedDomains :
           d \in DOMAIN entries <=> HostsHasLine(hostsFile, d)

(* C20: the done channel of a tunnel is closed at most once, and the done
   channel of every tunnel that a StopTunnel or a Manager.Stop has taken out
   of the collection has been closed once. *)
C20_DoneOnce ==
    /\ \A d \in DOMAIN tunnels : tunnels[d].done <= 1
    /\ \A p \in Procs : \A t \in procs[p].removed : t.done = 1

(* C23: in shared mode the route table has a route under a normalized domain
   exactly when the collection has a tunnel under it. *)
C23_RoutesFollowTunnels ==
    useProxy => \A d \in NormalizedDomains :
                    d \in DOMAIN routes <=> d \in DOMAIN tunnels

(* C24: in shared mode the route of a running tunnel has the port of the
   tunnel's listener as its target port. *)
C24_RouteTargetsListener ==
    useProxy =>
        \A d \in DOMAIN tunnels :
            (Running(tunnels, listeners, d) /\ d \in DOMAIN routes)
                => routes[d].TargetPort = listeners[tunnels[d].listener].port

(* C25: after a Start that returned nil the domain is registered for
   discovery at the port on which the tunnel's listener is bound, which is
   the tunnel's HTTPS port for an HTTPS tunnel and its HTTP port otherwise,
   and in dedicated mode is the port the caller asked for. *)
C25_RegisteredAtListenPort ==
    [][ (IsStart(lastOp') /\ lastOp'.err = NoError)
          => LET d == Normalize(lastOp'.domain)
                 t == tunnels'[d]
             IN  /\ d \in DOMAIN entries'
                 /\ Running(tunnels', listeners', d)
                 /\ entries'[d] = listeners'[t.listener].port
                 /\ entries'[d] = IF lastOp'.https THEN t.HTTPSPort
                                                  ELSE t.HTTPPort
                 /\ ~useProxy
                      => entries'[d] =
                           IF lastOp'.https
                           THEN (IF lastOp'.httpsPort = 0 THEN DefaultHTTPSPort
                                 ELSE lastOp'.httpsPort)
                           ELSE (IF lastOp'.httpPort = 0 THEN DefaultHTTPPort
                                 ELSE lastOp'.httpPort) ]_vars

(* an HTTPS Start returned nil in shared mode and the domain is registered
   at the tunnel's HTTPS port *)
C25_Witness ==
    /\ IsStart(lastOp) /\ lastOp.err = NoError /\ lastOp.https
    /\ useProxy
    /\ NameALocal \in DOMAIN entries
    /\ entries[NameALocal] = tunnels[NameALocal].HTTPSPort

-----------------------------------------------------------------------------
(* The certificate manager on its own: EnsureCert called on a certsDir that
   may hold files from before, as in TestCertificateReuse and
   TestInvalidCertificateHandling. *)

CertDomains == {NameALocal, NameBALocal}
CertFaults == {{}, {"cert"}, {"keyfile"}}
CertManagers == {"selfsigned", "mkcert"}

(* what certsDir holds for a.local when the CertManager is built *)
InitCertPairs ==
    { NoPair,
      [crt |-> PEM(1), key |-> PEM(1)],
      [crt |-> CorruptFile, key |-> CorruptFile],
      [crt |-> PEM(1), key |-> CorruptFile],
      [crt |-> PEM(1), key |-> NoFile] }

CertOp(op, domain, err, cert) ==
    [op |-> op, domain |-> domain, err |-> err, cert |-> cert]

InitCert ==
    /\ useProxy = FALSE
    /\ hostsBackup = NoPath
    /\ backupFile = Absent
    /\ hostsFile \in InitHosts
    /\ hosts0 = hostsFile
    /\ tunnels = EmptyMap
    /\ listeners = EmptyMap
    /\ entries = EmptyMap
    /\ routes = EmptyMap
    /\ \E pair \in InitCertPairs :
            certFiles = IF pair = NoPair THEN EmptyMap
                        ELSE Put(EmptyMap, NameALocal, pair)
    /\ certManager \in CertManagers
    /\ lastOp = CertOp("New", EmptyString, NoError, 0)
    /\ nops = 0
    /\ clean = TRUE
    /\ mu = 0
    /\ procs = [p \in Procs |-> IdleProc]

EnsureCertCall ==
    \E domain \in CertDomains, faults \in CertFaults :
        LET r == IF certManager = "mkcert"
                 THEN EnsureCertMkcert(certFiles, domain, faults)
                 ELSE EnsureCert(certFiles, domain, faults)
        IN  /\ nops < MaxOps
            /\ nops' = nops + 1
            /\ certFiles' = r.files
            /\ lastOp' = CertOp("EnsureCert", domain, r.err, r.cert)
            /\ clean' = (clean /\ r.err = NoError)
            /\ UNCHANGED <<useProxy, hostsBackup, backupFile, hostsFile,
                           hosts0, tunnels, listeners, entries, routes,
                           certManager, mu, procs>>

NextCert == EnsureCertCall

SpecCert == InitCert /\ [][NextCert]_vars

(* the call that led to this state was EnsureCert(domain) *)
IsEnsureCert(op, domain) == op.op = "EnsureCert" /\ op.domain = domain

(* C29: when a loadable cert/key pair for the domain is on disk, EnsureCert
   returns that pair's certificate and leaves the files as they are; so a
   call that follows a successful call for the same domain returns the same
   certificate bytes. *)
C29_ReusesLoadablePair ==
    [][ \A d \in CertDomains :
          IsEnsureCert(lastOp', d) =>
            /\ LoadX509KeyPair(CertPair(certFiles, d)).err = NoError
                 => /\ lastOp'.err = NoError
                    /\ lastOp'.cert = CertPair(certFiles, d).crt.bytes
                    /\ certFiles' = certFiles
            /\ (IsEnsureCert(lastOp, d) /\ lastOp.err = NoError)
                 => /\ lastOp'.err = NoError
                    /\ lastOp'.cert = lastOp.cert ]_vars

(* C30: when files for the domain are on disk and do not load as a key pair,
   EnsureCert returns an error and leaves certsDir as it is. *)
C30_UnparsableIsAnError ==
    [][ \A d \in CertDomains :
          (/\ IsEnsureCert(lastOp', d)
           /\ CertPair(certFiles, d).crt.state # "none"
           /\ CertPair(certFiles, d).key.state # "none"
           /\ LoadX509KeyPair(CertPair(certFiles, d)).err # NoError)
            => /\ lastOp'.err # NoError
               /\ certFiles' = certFiles ]_vars

-----------------------------------------------------------------------------
(* The built-in proxy: requests served by httputil.ReverseProxy with
   Director = proxyDirector and ErrorHandler = proxyErrorHandler, next to
   concurrent AddRoute, RemoveRoute and ListRoutes calls.  proxy.Manager.mu
   is a sync.RWMutex: mu is the caller holding it for writing, and the
   callers at a reading position hold it for reading. *)

NameALocalLocal == NameALocal \o DotLocal
NameB == <<"b">>
PortSuffix == <<":", "9", "0", "8", "0">>

(* strings.Split(s, ":")[0] *)
RECURSIVE BeforeColon(_)
BeforeColon(s) ==
    IF s = << >> \/ Head(s) = ":" THEN << >>
    ELSE <<Head(s)>> \o BeforeColon(Tail(s))

Route(domain, port, https) ==
    [Domain |-> domain, TargetHost |-> IP, TargetPort |-> port,
     HTTPS |-> https]

NoRoute == Route(EmptyString, 0, FALSE)

(* "Normalize domain (remove .local suffix if present for storage)" *)
RouteName(domain) ==
    IF HasSuffix(domain, DotLocal) THEN TrimSuffix(domain, DotLocal)
    ELSE domain

(* the two assignments of AddRoute *)
AddRouteSuffixed(rts, route) ==
    Put(rts, RouteName(route.Domain) \o DotLocal, route)

AddRouteUnsuffixed(rts, route) == Put(rts, RouteName(route.Domain), route)

(* the two deletions of RemoveRoute *)
RemoveRouteGiven(rts, domain) == Delete(rts, domain)

RemoveRouteOther(rts, domain) ==
    IF HasSuffix(domain, DotLocal)
    THEN Delete(rts, TrimSuffix(domain, DotLocal))
    ELSE Delete(rts, domain \o DotLocal)

(* An inbound request: the Host header, the address of the connection's
   peer, and the X-Forwarded-For (a list of addresses) and X-Real-IP
   headers the client sent. *)
Request(host, remoteIP, xff, xRealIP) ==
    [Host |-> host, RemoteAddr |-> [ip |-> remoteIP, port |-> 50000],
     XForwardedFor |-> xff, XRealIP |-> xRealIP]

NoRequest == Request(EmptyString, "", << >>, "")

(* req.URL of the outbound request: nil, or the scheme and host:port *)
NilURL == [nil |-> TRUE, Scheme |-> "", Host |-> "", Port |-> 0]

URL(scheme, host, port) ==
    [nil |-> FALSE, Scheme |-> scheme, Host |-> host, Port |-> port]

(* The outbound request ReverseProxy clones from the inbound one. *)
Clone(req) ==
    [Host |-> req.Host, URL |-> URL("", "", 0), RemoteAddr |-> req.RemoteAddr,
     XForwardedFor |-> req.XForwardedFor, XRealIP |-> req.XRealIP,
     XForwardedProto |-> "", XForwardedHost |-> EmptyString]

NoOutreq == Clone(NoRequest)

getClientIP(req) ==
    IF req.XForwardedFor # << >> THEN req.XForwardedFor[1]
    ELSE IF req.XRealIP # "" THEN req.XRealIP
    ELSE req.RemoteAddr.ip

(* proxyDirector sending a request without a route to the default port of
   the host it names *)
proxyDirector_ForwardsUnknown(rts, req) ==
    LET host == BeforeColon(req.Host)
        scheme == IF host \in DOMAIN rts /\ rts[host].HTTPS THEN "https"
                  ELSE "http"
    IN  IF host \notin DOMAIN rts
        THEN [req EXCEPT !.URL = URL("http", IP, DefaultHTTPPort)]
        ELSE [req EXCEPT !.URL = URL(scheme, rts[host].TargetHost,
                                     rts[host].TargetPort),
                         !.Host = IP,
                         !.XForwardedFor = <<getClientIP(req)>>,
                         !.XForwardedProto = scheme,
                         !.XForwardedHost = host]

(* proxyDirector sending every routed request to the default HTTP port of
   the target host *)
proxyDirector_DefaultPort(rts, req) ==
    LET host == BeforeColon(req.Host)
        scheme == IF host \in DOMAIN rts /\ rts[host].HTTPS THEN "https"
                  ELSE "http"
    IN  IF host \notin DOMAIN rts
        THEN [req EXCEPT !.URL = NilURL]
        ELSE [req EXCEPT !.URL = URL(scheme, rts[host].TargetHost,
                                     DefaultHTTPPort),
                         !.Host = IP,
                         !.XForwardedFor = <<getClientIP(req)>>,
                         !.XForwardedProto = scheme,
                         !.XForwardedHost = host]

(* proxyDirector, on the outbound request, with the route table it reads
   under RLock *)
proxyDirector(rts, req) ==
    LET host == BeforeColon(req.Host)
        scheme == IF host \in DOMAIN rts /\ rts[host].HTTPS THEN "https"
                  ELSE "http"
    IN  IF host \notin DOMAIN rts
        THEN [req EXCEPT !.URL = NilURL]
        ELSE [req EXCEPT !.URL = URL(scheme, rts[host].TargetHost,
                                     rts[host].TargetPort),
                         !.Host = IP,
                         !.XForwardedFor = <<getClientIP(req)>>,
                         !.XForwardedProto = scheme,
                         !.XForwardedHost = host]

(* ReverseProxy.ServeHTTP up to the round trip: the Director runs on the
   clone, then the peer's address is appended to the X-Forwarded-For the
   Director left. *)
Outbound(rts, req) ==
    LET out == proxyDirector(rts, Clone(req))
    IN  [out EXCEPT !.XForwardedFor = Append(@, req.RemoteAddr.ip)]

(* A response: status, the host the body names, the routes the body lists
   in the order it lists them, and the error text of a 502. *)
Response(status, host, listed, text) ==
    [status |-> status, host |-> host, listed |-> listed, text |-> text]

NoResponse == Response(0, EmptyString, << >>, "")

(* the sequences that list each element of S once *)
RECURSIVE Orders(_)
Orders(S) ==
    IF S = {} THEN {<< >>}
    ELSE UNION { { <<x>> \o o : o \in Orders(S \ {x}) } : x \in S }

(* proxyErrorHandler: order is the order in which "for domain := range
   m.routes" yields the keys *)
proxyErrorHandler(r, order, err) ==
    IF r.URL.nil
    THEN Response(StatusNotFound, BeforeColon(r.Host), order, "Route Not Found")
    ELSE Response(StatusBadGateway, EmptyString, << >>, err)

(* http.Transport.RoundTrip on the outbound request: a request without a
   URL is refused before anything is dialled; otherwise the target is
   dialled, and up tells whether the backend answers.  dialed is the set of
   addresses the request was sent to. *)
RoundTrip(out, up) ==
    IF out.URL.nil
    THEN [err |-> "http: nil Request.URL", dialed |-> {}]
    ELSE IF up
    THEN [err |-> NoError,
          dialed |-> {[host |-> out.URL.Host, port |-> out.URL.Port]}]
    ELSE [err |-> "dial tcp: connection refused",
          dialed |-> {[host |-> out.URL.Host, port |-> out.URL.Port]}]

(* Inputs *)

ProxyRoutes ==
    { Route(NameA, 3000, FALSE),
      Route(NameALocal, 3001, TRUE),
      Route(NameALocalLocal, 3002, FALSE) }

RemoveDomains == {NameA, NameALocal, NameALocalLocal}

Requests ==
    { Request(NameALocal \o PortSuffix, "10.0.0.7", << >>, ""),
      Request(NameA, "10.0.0.7", <<"1.2.3.4", "10.0.0.1">>, ""),
      Request(NameB \o DotLocal \o PortSuffix, "10.0.0.7", << >>, "10.0.0.9") }

(* A caller of the proxy: where it is, what it was called with, and what it
   has got so far.  seen is the table a reader read. *)
ProxyProc(pc, op, route, domain, req) ==
    [pc |-> pc, op |-> op, route |-> route, domain |-> domain, req |-> req,
     out |-> NoOutreq, dialed |-> {}, resp |-> NoResponse, seen |-> EmptyMap]

IdleProxyProc == ProxyProc("idle", "none", NoRoute, EmptyString, NoRequest)

(* the callers that hold m.mu for reading *)
Readers ==
    {p \in Procs : procs[p].pc \in {"listing", "directing", "enumerating"}}

InitProxy ==
    /\ useProxy = TRUE
    /\ hostsBackup = NoPath
    /\ backupFile = Absent
    /\ hostsFile \in InitHosts
    /\ hosts0 = hostsFile
    /\ tunnels = EmptyMap
    /\ listeners = EmptyMap
    /\ entries = EmptyMap
    /\ routes = EmptyMap
    /\ certFiles = EmptyMap
    /\ certManager = "selfsigned"
    /\ lastOp = Op("NewManager", EmptyString, 0, FALSE, 0, 0, NoError)
    /\ nops = 0
    /\ clean = TRUE
    /\ mu = 0
    /\ procs = [p \in Procs |-> IdleProxyProc]

UnchangedButRoutes ==
    UNCHANGED <<useProxy, hostsBackup, backupFile, hostsFile, hosts0, tunnels,
                listeners, entries, certFiles, certManager, lastOp, nops,
                clean>>

(* AddRoute: m.mu.Lock() *)
AddRouteLock(p) ==
    \E route \in ProxyRoutes :
        /\ procs[p].pc = "idle"
        /\ mu = 0 /\ Readers = {}
        /\ mu' = p
        /\ procs' = [procs EXCEPT ![p] =
                        ProxyProc("locked", "AddRoute", route, EmptyString,
                                  NoRequest)]
        /\ UNCHANGED routes
        /\ UnchangedButRoutes

(* m.routes[domain+".local"] = route *)
AddRouteFirst(p) ==
    /\ procs[p].pc = "locked" /\ procs[p].op = "AddRoute"
    /\ routes' = AddRouteSuffixed(routes, procs[p].route)
    /\ procs' = [procs EXCEPT ![p].pc = "half"]
    /\ UNCHANGED mu
    /\ UnchangedButRoutes

(* m.routes[domain] = route, and the deferred Unlock *)
AddRouteSecond(p) ==
    /\ procs[p].pc = "half" /\ procs[p].op = "AddRoute"
    /\ routes' = AddRouteUnsuffixed(routes, procs[p].route)
    /\ procs' = [procs EXCEPT ![p].pc = "done"]
    /\ mu' = 0
    /\ UnchangedButRoutes

(* RemoveRoute: m.mu.Lock() *)
RemoveRouteLock(p) ==
    \E domain \in RemoveDomains :
        /\ procs[p].pc = "idle"
        /\ mu = 0 /\ Readers = {}
        /\ mu' = p
        /\ procs' = [procs EXCEPT ![p] =
                        ProxyProc("locked", "RemoveRoute", NoRoute, domain,
                                  NoRequest)]
        /\ UNCHANGED routes
        /\ UnchangedButRoutes

(* delete(m.routes, domain) *)
RemoveRouteFirst(p) ==
    /\ procs[p].pc = "locked" /\ procs[p].op = "RemoveRoute"
    /\ routes' = RemoveRouteGiven(routes, procs[p].domain)
    /\ procs' = [procs EXCEPT ![p].pc = "half"]
    /\ UNCHANGED mu
    /\ UnchangedButRoutes

(* the deletion of the other variation, and the deferred Unlock *)
RemoveRouteSecond(p) ==
    /\ procs[p].pc = "half" /\ procs[p].op = "RemoveRoute"
    /\ routes' = RemoveRouteOther(routes, procs[p].domain)
    /\ procs' = [procs EXCEPT ![p].pc = "done"]
    /\ mu' = 0
    /\ UnchangedButRoutes

(* ListRoutes: m.mu.RLock() *)
ListRoutesRLock(p) ==
    /\ procs[p].pc = "idle"
    /\ mu = 0
    /\ procs' = [procs EXCEPT ![p] =
                    ProxyProc("listing", "ListRoutes", NoRoute, EmptyString,
                              NoRequest)]
    /\ UNCHANGED <<routes, mu>>
    /\ UnchangedButRoutes

(* the copy of the map, and the deferred RUnlock *)
ListRoutesCopy(p) ==
    /\ procs[p].pc = "listing"
    /\ procs' = [procs EXCEPT ![p].pc = "done", ![p].seen = routes]
    /\ UNCHANGED <<routes, mu>>
    /\ UnchangedButRoutes

(* a request arrives and proxyDirector gets m.mu.RLock() *)
DirectorRLock(p) ==
    \E req \in Requests :
        /\ procs[p].pc = "idle"
        /\ mu = 0
        /\ procs' = [procs EXCEPT ![p] =
                        ProxyProc("directing", "Request", NoRoute,
                                  EmptyString, req)]
        /\ UNCHANGED <<routes, mu>>
        /\ UnchangedButRoutes

(* the rest of proxyDirector with its deferred RUnlock, and ServeHTTP up to
   the round trip *)
Director(p) ==
    LET out == Outbound(routes, procs[p].req)
    IN  /\ procs[p].pc = "directing"
        /\ procs' = [procs EXCEPT
                        ![p].pc = IF out.URL.nil THEN "nourl"
                                  ELSE "forwarding",
                        ![p].out = out, ![p].seen = routes]
        /\ UNCHANGED <<routes, mu>>
        /\ UnchangedButRoutes

(* the round trip of a request that has a URL; a failed one is answered by
   proxyErrorHandler *)
Forward(p) ==
    \E up \in BOOLEAN :
        LET r == RoundTrip(procs[p].out, up)
        IN  /\ procs[p].pc = "forwarding"
            /\ procs' = [procs EXCEPT
                            ![p].pc = "done", ![p].dialed = r.dialed,
                            ![p].resp =
                                IF r.err = NoError
                                THEN Response(StatusOK, EmptyString, << >>,
                                              "")
                                ELSE proxyErrorHandler(procs[p].out, << >>,
                                                       r.err)]
            /\ UNCHANGED <<routes, mu>>
            /\ UnchangedButRoutes

(* the round trip of a request without a URL fails, proxyErrorHandler writes
   the status and the host and gets m.mu.RLock() for the list *)
ErrorHandlerRLock(p) ==
    LET r == RoundTrip(procs[p].out, TRUE)
    IN  /\ procs[p].pc = "nourl"
        /\ mu = 0
        /\ procs' = [procs EXCEPT ![p].pc = "enumerating",
                                  ![p].dialed = r.dialed]
        /\ UNCHANGED <<routes, mu>>
        /\ UnchangedButRoutes

(* "for domain := range m.routes", the RUnlock and the end of the page *)
ErrorHandlerList(p) ==
    \E order \in Orders(DOMAIN routes) :
        /\ procs[p].pc = "enumerating"
        /\ procs' = [procs EXCEPT
                        ![p].pc = "done",
                        ![p].resp = proxyErrorHandler(procs[p].out, order,
                                        "http: nil Request.URL")]
        /\ UNCHANGED <<routes, mu>>
        /\ UnchangedButRoutes

NextProxy ==
    \/ \E p \in Procs : AddRouteLock(p)
    \/ \E p \in Procs : AddRouteFirst(p)
    \/ \E p \in Procs : AddRouteSecond(p)
    \/ \E p \in Procs : RemoveRouteLock(p)
    \/ \E p \in Procs : RemoveRouteFirst(p)
    \/ \E p \in Procs : RemoveRouteSecond(p)
    \/ \E p \in Procs : ListRoutesRLock(p)
    \/ \E p \in Procs : ListRoutesCopy(p)
    \/ \E p \in Procs : DirectorRLock(p)
    \/ \E p \in Procs : Director(p)
    \/ \E p \in Procs : Forward(p)
    \/ \E p \in Procs : ErrorHandlerRLock(p)
    \/ \E p \in Procs : ErrorHandlerList(p)

SpecProxy == InitProxy /\ [][NextProxy]_vars

(* every route of the table is held under both of its keys, the name with
   and without ".local" *)
PairedTable(rts) ==
    \A k \in DOMAIN rts :
        LET n == RouteName(rts[k].Domain)
        IN  /\ n \in DOMAIN rts /\ rts[n] = rts[k]
            /\ (n \o DotLocal) \in DOMAIN rts /\ rts[n \o DotLocal] = rts[k]

(* the callers whose call has returned *)
Returned(op) == {p \in Procs : procs[p].pc = "done" /\ procs[p].op = op}

(* C21: whenever no AddRoute or RemoveRoute call is in progress, each route
   of the table is reachable under both the suffixed and the unsuffixed key
   of its name, and both keys resolve to that same route. *)
C21_BothKeysOrNone == mu = 0 => PairedTable(routes)

(* C22: a caller that holds the lock for reading sees no route under only
   one of its two keys, and neither does the copy ListRoutes returned or the
   table proxyDirector looked the host up in; while a writer is between its
   two insertions or deletions it holds the lock and nobody is reading. *)
C22_ReadersSeePairs ==
    /\ \A p \in Readers : mu = 0 /\ PairedTable(routes)
    /\ \A p \in Returned("ListRoutes") \cup Returned("Request") :
            PairedTable(procs[p].seen)
    /\ \A p \in Procs : procs[p].pc = "half" => mu = p /\ Readers = {}

(* the requests proxyDirector has looked up, and the host it looked up *)
Directed ==
    {p \in Procs : procs[p].op = "Request" /\ procs[p].pc # "directing"}

HostOf(p) == BeforeColon(procs[p].req.Host)

Elements(s) == {s[i] : i \in 1..Len(s)}

(* C26: a request whose Host, port stripped, had no route when it was looked
   up is sent to no backend, and its response is a 404 that names that
   host. *)
C26_NoRouteIs404 ==
    \A p \in Directed :
        HostOf(p) \notin DOMAIN procs[p].seen
            => /\ procs[p].dialed = {}
               /\ procs[p].pc = "done"
                    => /\ procs[p].resp.status = StatusNotFound
                       /\ procs[p].resp.host = HostOf(p)

(* a request with a port in its Host header got its 404 while the table
   held routes for other hosts *)
C26_Witness ==
    \E p \in Returned("Request") :
        /\ procs[p].req.Host = NameB \o DotLocal \o PortSuffix
        /\ procs[p].seen # EmptyMap
        /\ procs[p].resp.status = StatusNotFound
        /\ procs[p].resp.host = NameB \o DotLocal

(* C27: two requests with the same Host header that found the same route
   table, at the lookup and when the routes were listed, and had no route,
   got the same status and the same body. *)
C27_SameNoRouteResponse ==
    \A p, q \in Returned("Request") :
        (/\ procs[p].req.Host = procs[q].req.Host
         /\ procs[p].seen = procs[q].seen
         /\ procs[p].resp.status = StatusNotFound
         /\ procs[q].resp.status = StatusNotFound
         /\ Elements(procs[p].resp.listed) = Elements(procs[q].resp.listed))
            => procs[p].resp = procs[q].resp

(* C28: a request whose Host, port stripped, had a route when it was looked
   up goes out to that route's TargetHost:TargetPort with X-Forwarded-Host
   set to the host and the peer's address in X-Forwarded-For, and once it
   has been answered it has been sent to that address and to no other. *)
C28_ForwardedToRouteTarget ==
    \A p \in Directed :
        HostOf(p) \in DOMAIN procs[p].seen
            => LET r == procs[p].seen[HostOf(p)]
                   out == procs[p].out
               IN  /\ ~out.URL.nil
                   /\ out.URL.Host = r.TargetHost
                   /\ out.URL.Port = r.TargetPort
                   /\ out.XForwardedHost = HostOf(p)
                   /\ procs[p].req.RemoteAddr.ip \in Elements(out.XForwardedFor)
                   /\ procs[p].pc = "done"
                        => procs[p].dialed = {[host |-> r.TargetHost,
                                               port |-> r.TargetPort]}

(* a request that came with an X-Forwarded-For of its own and a request with
   a port in its Host header have both been forwarded *)
C28_Witness ==
    \E p, q \in Returned("Request") :
        /\ procs[p].req.XForwardedFor # << >>
        /\ procs[p].dialed # {}
        /\ procs[q].req.Host = NameALocal \o PortSuffix
        /\ procs[q].dialed # {}
        /\ procs[q].resp.status = StatusOK

-----------------------------------------------------------------------------
(* where the step is in the list of steps, 0 when the call did not get to it *)
StepIndex(steps, name) ==
    IF \E i \in 1..Len(steps) : steps[i] = name
    THEN CHOOSE i \in 1..Len(steps) : steps[i] = name
    ELSE 0

(* the call made step a before step b, when it made both *)
InOrder(steps, a, b) ==
    (StepIndex(steps, a) > 0 /\ StepIndex(steps, b) > 0)
        => StepIndex(steps, a) < StepIndex(steps, b)

(* the call made step b only after it had made step a *)
OnlyAfter(steps, a, b) ==
    StepIndex(steps, b) > 0
        => (StepIndex(steps, a) > 0 /\ StepIndex(steps, a) < StepIndex(steps, b))

(* C31: the steps of a Start come in the order validate, certificate,
   listener (dedicated mode) or route (shared mode), hosts entry, discovery
   registration, collection; the hosts entry and the discovery registration
   are made only after the listener has been bound. *)
C31_StartOrder ==
    [][ \A c \in StartCalls, fault \in StartFaults :
          StartStep(c, fault) =>
            LET steps == StartTunnelWithPorts(Cur, c.backendPort, c.domain,
                             c.https, c.httpPort, c.httpsPort, {fault}).steps
                claimed == <<"validate", "certificate",
                             IF useProxy THEN "route" ELSE "listener",
                             "hosts", "discovery", "collection">>
            IN  /\ \A i, j \in 1..Len(claimed) :
                      i < j => InOrder(steps, claimed[i], claimed[j])
                /\ OnlyAfter(steps, "listener", "hosts")
                /\ OnlyAfter(steps, "listener", "discovery") ]_vars

(* C32: a StopTunnel whose domain, normalized, is a key of the collection
   does not report not-found, and when it returns nil that tunnel is out of
   the collection; not-found is reported only when the normalized domain is
   not a key of the collection. *)
C32_StopByNormalizedDomain ==
    [][ lastOp'.op = "StopTunnel" =>
          LET d == Normalize(lastOp'.domain)
          IN  /\ d \in DOMAIN tunnels
                    => /\ lastOp'.err # "does not exist"
                       /\ lastOp'.err = NoError => d \notin DOMAIN tunnels'
              /\ lastOp'.err = "does not exist" => d \notin DOMAIN tunnels
      ]_vars

(* the tunnels on which the call that led to the next state ran Tunnel.stop *)
StoppedBy(op, ts) ==
    IF op.op = "Stop" THEN DOMAIN ts
    ELSE IF op.op = "StopTunnel" THEN {op.domain} \cap DOMAIN ts
    ELSE {}

(* C33: after a call has run Tunnel.stop on a tunnel, whether that returned
   an error or not, the tunnel's listener is closed; and a closed listener
   is never open again. *)
C33_StopClosesListener ==
    [][ /\ \A d \in StoppedBy(lastOp', tunnels) :
              tunnels[d].listener \notin OpenListeners(listeners')
        /\ \A i \in DOMAIN listeners \cap DOMAIN listeners' :
              ~listeners[i].open => ~listeners'[i].open ]_vars

(* a StopTunnel failed in the shutdown of the server and the listener of its
   tunnel, open before, is now closed *)
C33_Witness ==
    /\ lastOp.op = "StopTunnel"
    /\ lastOp.err = "failed to stop tunnel"
    /\ lastOp.domain \in DOMAIN tunnels
    /\ tunnels[lastOp.domain].listener \in DOMAIN listeners
    /\ ~listeners[tunnels[lastOp.domain].listener].open

(* C34: in shared mode no call of the Manager changes the hosts file or the
   hosts backup. *)
C34_SharedModeLeavesHosts ==
    [][ useProxy => (hostsFile' = hostsFile /\ backupFile' = backupFile) ]_vars

(* in shared mode, with a backup path set, a StopTunnel has stopped one of
   two running tunnels *)
C34_Witness ==
    /\ useProxy
    /\ hostsBackup = GoodPath
    /\ lastOp.op = "StopTunnel" /\ lastOp.err = NoError
    /\ \E d \in DOMAIN tunnels : Running(tunnels, listeners, d)
    /\ hostsFile = hosts0 /\ backupFile = Absent

-----------------------------------------------------------------------------
(* StopAll and Close next to concurrent Starts.  StopAll takes m.mu and, for
   each domain of the collection, calls StopTunnel, which takes m.mu again;
   sync.RWMutex is not reentrant.  Close is StopAll followed, when that
   returned nil, by dnsserver.Shutdown. *)

StopAllOps == {"StopAll", "Close"}

(* the caller enters Start, StopAll or Close and reaches m.mu.Lock() *)
InvokeAll(p) ==
    \E op \in {"Start"} \cup StopAllOps :
        /\ procs[p].pc = "idle"
        /\ procs' = [procs EXCEPT ![p].pc = "waiting", ![p].op = op]
        /\ UNCHANGED mu
        /\ UnchangedManager

(* A step of StopAll.  Holding the lock, at the head of its loop: with an
   empty collection the loop ends, the map is replaced and the call returns
   (Close goes on to dnsserver.Shutdown, which drops every registration);
   otherwise it calls StopTunnel for a domain of the collection and is at
   the m.mu.Lock() of StopTunnel.  There, once the lock is free, StopTunnel
   runs and releases the lock, and StopAll returns its error or goes back
   to the head of the loop. *)
StopAllStep(p) ==
    LET me == procs[p]
    IN  /\ me.op \in StopAllOps
        /\ me.pc \in {"locked", "nested"}
        /\ IF me.pc = "locked"
           THEN IF DOMAIN tunnels = {}
                THEN /\ tunnels' = EmptyMap
                     /\ entries' = IF me.op = "Close" THEN EmptyMap
                                   ELSE entries
                     /\ lastOp' = Op(me.op, EmptyString, 0, FALSE, 0, 0,
                                     NoError)
                     /\ mu' = 0
                     /\ procs' = [procs EXCEPT ![p].pc = "done"]
                     /\ UNCHANGED <<useProxy, hostsBackup, backupFile,
                                    hostsFile, hosts0, listeners, routes,
                                    certFiles, certManager, nops, clean>>
                ELSE /\ \E d \in DOMAIN tunnels :
                            procs' = [procs EXCEPT
                                        ![p].pc = "nested",
                                        ![p].call = Call(0, d, FALSE, 0, 0)]
                     /\ UNCHANGED mu
                     /\ UnchangedManager
           ELSE LET r == StopTunnelResult(Cur, me.call.domain, {})
                IN  /\ mu = 0
                    /\ Apply(r.st)
                    /\ lastOp' = Op("StopTunnel", me.call.domain, 0, FALSE,
                                    0, 0, r.err)
                    /\ clean' = (clean /\ r.err = NoError)
                    /\ mu' = 0
                    /\ procs' = [procs EXCEPT
                                    ![p].pc = IF r.err = NoError THEN "locked"
                                              ELSE "done",
                                    ![p].err = r.err]
                    /\ UNCHANGED <<useProxy, hostsBackup, hosts0,
                                   certManager>>

(* callers of the StopAll scenario *)
NCallers == 2

Callers == 1..NCallers

NextStopAll ==
    \/ \E p \in Callers : InvokeAll(p)
    \/ \E p \in Callers : Lock(p)
    \/ \E p \in Callers : CheckStart(p)
    \/ \E p \in Callers : RunStart(p)
    \/ \E p \in Callers : StopAllStep(p)

(* every caller that can take a step eventually takes it: the goroutines are
   scheduled, and a Lock on a free mutex returns *)
FairStopAll ==
    \A p \in Callers :
        /\ WF_vars(Lock(p))
        /\ WF_vars(CheckStart(p))
        /\ WF_vars(RunStart(p))
        /\ WF_vars(StopAllStep(p))

SpecStopAll == Init /\ [][NextStopAll]_vars /\ FairStopAll

(* a StopAll or Close that was called and has not returned *)
Pending(p) == procs[p].op \in StopAllOps /\ procs[p].pc # "done"

(* C35: every StopAll or Close that is called returns (each caller makes one
   call, so from some point on none is pending), and when it returns the
   collection is empty. *)
C35_StopAllReturns ==
    /\ <>[](\A p \in Callers : ~Pending(p))
    /\ [][ \A p \in Callers :
             (Pending(p) /\ ~Pending(p)') => tunnels' = EmptyMap ]_vars

(* C36: in shared mode the listen ports assigned to two tunnels that are
   running at the same time differ: their HTTP ports differ and their HTTPS
   ports differ. *)
C36_SharedPortsDistinct ==
    useProxy =>
        \A d, e \in DOMAIN tunnels :
            (d # e /\ Running(tunnels, listeners, d)
                   /\ Running(tunnels, listeners, e))
                => /\ tunnels[d].HTTPPort # tunnels[e].HTTPPort
                   /\ tunnels[d].HTTPSPort # tunnels[e].HTTPSPort

(* C37: a Manager.Stop issued right after a Manager.Stop that returned nil
   returns nil too and changes neither the hosts file nor the collection
   (no injected failure in the second call). *)
C37_StopIdempotent ==
    [][ (lastOp.op = "Stop" /\ lastOp.err = NoError /\ StopStep({}, {}))
            => /\ lastOp'.err = NoError
               /\ hostsFile' = hostsFile
               /\ tunnels' = tunnels ]_vars

(* C38: in dedicated mode a Start that returns nil leaves the line
   "127.0.0.1<TAB>domain" for its normalized domain in the hosts file. *)
C38_StartLeavesOwnLine ==
    [][ (~useProxy /\ IsStart(lastOp') /\ lastOp'.err = NoError)
            => HostsHasLine(hostsFile', Normalize(lastOp'.domain)) ]_vars

(* what the Manager holds for the domain e: its collection entry, its
   listener, its discovery registration, its routes and whether the hosts
   file has its line *)
Holdings(ts, lst, ents, rts, content, e) ==
    [tunnel   |-> ts[e],
     listener |-> lst[ts[e].listener],
     entry    |-> IF e \in DOMAIN ents THEN <<ents[e]>> ELSE << >>,
     routes   |-> [k \in {x \in DOMAIN rts : rts[x].Domain = e} |-> rts[k]],
     hosts    |-> HostsHasLine(content, e)]

(* C39: StopTunnel(d) leaves every other domain e with a running tunnel as it
   was: e's collection entry, listener, discovery registration, routes and
   hosts-file line. *)
C39_StopTunnelFrame ==
    [][ lastOp'.op = "StopTunnel" =>
          \A e \in DOMAIN tunnels \ {lastOp'.domain} :
              Running(tunnels, listeners, e)
                  => /\ Running(tunnels', listeners', e)
                     /\ Holdings(tunnels', listeners', entries', routes',
                                 hostsFile', e)
                          = Holdings(tunnels, listeners, entries, routes,
                                     hostsFile, e) ]_vars

(* C40: on a Manager as NewManager built it (no SetHostsBackupDir call), the
   first Start in dedicated mode with valid arguments and no failure of the
   environment returns nil and leaves exactly one tunnel, which is running. *)
C40_FirstStartSucceeds ==
    [][ \A c \in StartCalls :
          (/\ ~useProxy
           /\ lastOp.op = "NewManager"
           /\ PassesChecks(Cur, c)
           /\ StartStep(c, "none"))
              => /\ lastOp'.err = NoError
                 /\ Cardinality(DOMAIN tunnels') = 1
                 /\ \A d \in DOMAIN tunnels' :
                        Running(tunnels', listeners', d) ]_vars

=============================================================================
